---- MODULE Spec2Model ----
(***************************************************************************)
(* The order-capture backend of kayesbackend: the Express handlers of      *)
(* src/index.js and of the second server file src/unnamed/part_000, over   *)
(* the two Mongoose collections they use (Product, Order).                 *)
(*                                                                         *)
(* A request body is JSON. A JSON value is the record [t, n, s]: t is the  *)
(* JavaScript type tag, n the number (or the ObjectId's ordinal), s the    *)
(* string. Free-text fields that no handler computes with (customerName,   *)
(* phone, address, size, color, imageUrl, category, customFields) are      *)
(* copied through by the code and are left out of the records.             *)
(***************************************************************************)
EXTENDS Integers, Sequences, FiniteSets, TLC

VARIABLES
    server,     \* which server file is running: "index.js" or "part_000"
    products,   \* the Product collection: _id -> document
    nextPid,    \* ordinal of the next Product _id Mongoose generates
    orders,     \* the Order collection: _id -> document
    nextOid,    \* ordinal of the next Order _id Mongoose generates
    preq,       \* the POST /api/products requests in flight (two awaits each)
    req,        \* the POST /api/orders request in flight (one await per line)
    res         \* the last response sent: the route and the status code

vars == <<server, products, nextPid, orders, nextOid, preq, req, res>>

(***************************************************************************)
(* Bounds of the model.                                                    *)
(***************************************************************************)
MaxProducts == 2
MaxOrders == 1
MaxCartLen == 2
MaxClients == 2

(***************************************************************************)
(* JSON values.                                                            *)
(***************************************************************************)
Undefined == [t |-> "undefined", n |-> 0, s |-> ""]
Null == [t |-> "null", n |-> 0, s |-> ""]
Num(k) == [t |-> "number", n |-> k, s |-> ""]
Str(x) == [t |-> "string", n |-> 0, s |-> x]
\* the 24-hex-digit string of the k-th ObjectId
Oid(k) == [t |-> "oid", n |-> k, s |-> ""]
NaN == [t |-> "nan", n |-> 0, s |-> ""]

\* a ?? b
Coalesce(a, b) == IF a.t \in {"undefined", "null"} THEN b ELSE a

\* Number(v), on the values the model sends
ToNumber(v) ==
    CASE v.t = "number" -> v
      [] v.t = "null" -> Num(0)
      [] v.t = "string" /\ v.s = "" -> Num(0)
      [] v.t = "string" /\ v.s = "0" -> Num(0)
      [] v.t = "string" /\ v.s = "3" -> Num(3)
      [] OTHER -> NaN

\* JavaScript truthiness
Truthy(v) ==
    CASE v.t = "number" -> v.n # 0
      [] v.t = "string" -> v.s # ""
      [] v.t = "oid" -> TRUE
      [] OTHER -> FALSE

\* a || b
OrElse(a, b) == IF Truthy(a) THEN a ELSE b

isValidObjectId(v) == v.t = "oid"

\* express-validator's isNumeric(), on the string form of the value
isNumeric(v) ==
    \/ v.t = "number"
    \/ v.t = "string" /\ v.s \in {"0", "3"}

\* express-validator's notEmpty() after trim()
notEmpty(v) == v.t = "string" /\ v.s # ""

StatusEnum == {"pending", "processing", "delivered", "cancelled"}

\* Mongoose's cast of a body value to a Number path: the number, or a CastError
CastsToNumber(v) == ToNumber(v).t = "number" /\ v.t # "null"

(***************************************************************************)
(* Inputs of the catalog requests.                                         *)
(***************************************************************************)
ProductBody(title, code, price, pad) ==
    [title |-> title, code |-> code, price |-> price, priceAfterDiscount |-> pad]

\* bodies of POST /api/products
CreateBodies ==
    { ProductBody(Str("t1"), Str("c1"), Num(2), Undefined),
      ProductBody(Str("t1"), Str("c2"), Num(2), Num(1)),
      ProductBody(Str(""), Str("c1"), Num(2), Undefined) }

\* bodies of PUT /api/products/:id (Undefined: the key is not in the body)
UpdateBodies ==
    { ProductBody(Str("t2"), Undefined, Num(0), Undefined),
      ProductBody(Undefined, Undefined, Undefined, Num(0)),
      ProductBody(Undefined, Str("c1"), Undefined, Undefined) }

\* the one update sent while orders are also replaced, moved and deleted
FewUpdateBodies == { ProductBody(Str("t2"), Undefined, Num(0), Undefined) }

\* the :id parameters a client sends for a product
ProductIdParams == { Oid(k) : k \in 1..MaxProducts }

\* res.status(code).json({ message }); a 2xx answers with the document, and an
\* error thrown by save() reaches the error handler, which answers 500
Response(op, code, message) == [op |-> op, code |-> code, message |-> message]
Thrown(op) == Response(op, 500, "err.message")

\* the 400 of a failed express-validator chain
ValidationFailed(op) ==
    Response(op, 400, IF server = "index.js" THEN "Validation failed" ELSE "")

(***************************************************************************)
(* ProductSchema: casting and validation at save().                        *)
(***************************************************************************)
\* the candidate document: the body's values over the stored ones
AssignProduct(p, body) ==
    [ title |-> IF body.title.t = "undefined" THEN Str(p.title) ELSE body.title,
      code |-> IF body.code.t = "undefined" THEN Str(p.code) ELSE body.code,
      price |-> IF body.price.t = "undefined" THEN Num(p.price) ELSE body.price,
      priceAfterDiscount |->
          IF body.priceAfterDiscount.t = "undefined"
          THEN p.priceAfterDiscount ELSE body.priceAfterDiscount ]

\* priceAfterDiscount's custom validator; src/unnamed/part_000 has none
DiscountValidator(v, price) ==
    IF server = "index.js"
    THEN v.t \in {"undefined", "null"} \/ v.n <= price
    ELSE TRUE

\* required, cast and min of the paths; padModified: priceAfterDiscount is a
\* modified path, the only case in which save() runs its validators
ProductValid(c, padModified) ==
    /\ notEmpty(c.title)
    /\ notEmpty(c.code)
    /\ CastsToNumber(c.price) /\ ToNumber(c.price).n >= 0
    /\ \/ c.priceAfterDiscount.t \in {"undefined", "null"}
       \/ ~padModified
       \/ /\ CastsToNumber(c.priceAfterDiscount)
          /\ ToNumber(c.priceAfterDiscount).n >= 0
          /\ DiscountValidator(ToNumber(c.priceAfterDiscount), ToNumber(c.price).n)

\* the document as stored
ProductDoc(c) ==
    [ title |-> c.title.s,
      code |-> c.code.s,
      price |-> ToNumber(c.price).n,
      priceAfterDiscount |->
          IF c.priceAfterDiscount.t \in {"undefined", "null"}
          THEN Undefined ELSE ToNumber(c.priceAfterDiscount) ]

\* a mutant: the collection has no unique index on code
DuplicateKeyUnindexed(code, self) == FALSE

\* the unique index on code: another document holds this code
DuplicateKey(code, self) ==
    \E k \in DOMAIN products : k # self /\ products[k].code = code

\* Product.findOne({ code })
findOneByCode(code) == { k \in DOMAIN products : products[k].code = code.s }

IdleProductRequest ==
    [pc |-> "idle", body |-> ProductBody(Undefined, Undefined, Undefined, Undefined)]

\* the clients that may each have a POST /api/products in flight
Clients == 1..MaxClients

\* the creations between their findOne and their save
Saving == { c \in Clients : preq[c].pc = "save" }

(***************************************************************************)
(* POST /api/products: validators and findOne, then (after the await)      *)
(* new Product and save.                                                   *)
(***************************************************************************)
PostProductsFind(c, body) ==
    LET op == "POST /api/products" IN
    /\ preq[c].pc = "idle"
    /\ nextPid + Cardinality(Saving) <= MaxProducts
    /\ IF ~(notEmpty(body.title) /\ notEmpty(body.code) /\ isNumeric(body.price))
       THEN /\ res' = ValidationFailed(op)
            /\ UNCHANGED preq
       ELSE IF findOneByCode(body.code) # {}
       THEN /\ res' = Response(op, 400, "Product code must be unique")
            /\ UNCHANGED preq
       ELSE /\ preq' = [preq EXCEPT ![c] = [pc |-> "save", body |-> body]]
            /\ UNCHANGED res
    /\ UNCHANGED <<server, products, nextPid, orders, nextOid, req>>

PostProductsSave(c) ==
    LET op == "POST /api/products" IN
    /\ preq[c].pc = "save"
    /\ preq' = [preq EXCEPT ![c] = IdleProductRequest]
    /\ IF ProductValid(preq[c].body, TRUE) /\ ~DuplicateKey(preq[c].body.code.s, 0)
       THEN /\ products' = (nextPid :> ProductDoc(preq[c].body)) @@ products
            /\ nextPid' = nextPid + 1
            /\ res' = Response(op, 201, "")
       ELSE /\ res' = Thrown(op)
            /\ UNCHANGED <<products, nextPid>>
    /\ UNCHANGED <<server, orders, nextOid, req>>

(***************************************************************************)
(* PUT /api/products/:id                                                   *)
(***************************************************************************)
PutProduct(id, body) ==
    LET op == "PUT /api/products/:id"
        bad == /\ server = "index.js"
               /\ \/ body.price.t # "undefined" /\ ~isNumeric(body.price)
                  \/ /\ body.priceAfterDiscount.t # "undefined"
                     /\ ~isNumeric(body.priceAfterDiscount)
    IN
    /\ IF bad
       THEN /\ res' = ValidationFailed(op)
            /\ UNCHANGED products
       ELSE IF ~isValidObjectId(id)
       THEN /\ res' = Response(op, 400, "Invalid product id")
            /\ UNCHANGED products
       ELSE IF id.n \notin DOMAIN products
       THEN /\ res' = Response(op, 404, "Product not found")
            /\ UNCHANGED products
       ELSE LET p == products[id.n]
                c == AssignProduct(p, body)
                padModified == c.priceAfterDiscount # p.priceAfterDiscount
            IN IF ProductValid(c, padModified) /\ ~DuplicateKey(c.code.s, id.n)
               THEN /\ products' = [products EXCEPT ![id.n] = ProductDoc(c)]
                    /\ res' = Response(op, 200, "")
               ELSE /\ res' = Thrown(op)
                    /\ UNCHANGED products
    /\ UNCHANGED <<server, nextPid, orders, nextOid, preq, req>>

(***************************************************************************)
(* DELETE /api/products/:id                                                *)
(***************************************************************************)
DeleteProduct(id) ==
    LET op == "DELETE /api/products/:id" IN
    /\ IF ~isValidObjectId(id)
       THEN /\ res' = Response(op, 400, "Invalid product id")
            /\ UNCHANGED products
       ELSE IF id.n \notin DOMAIN products
       THEN /\ res' = Response(op, 404, "Product not found")
            /\ UNCHANGED products
       ELSE /\ products' = [k \in DOMAIN products \ {id.n} |-> products[k]]
            /\ res' = Response(op, 200, "Product removed")
    /\ UNCHANGED <<server, nextPid, orders, nextOid, preq, req>>

(***************************************************************************)
(* Inputs of the order requests.                                           *)
(***************************************************************************)
\* req.body.products: absent, or an array
NoCart == [t |-> "undefined", a |-> <<>>]
Arr(a) == [t |-> "array", a |-> a]

\* a cart line; price is a key the client adds on its own
CartLine(pid, quantity, price) ==
    [productId |-> pid, quantity |-> quantity, price |-> price]

ProductRefs ==
    { Oid(k) : k \in 1..MaxProducts } \cup { Str("not-an-id"), Undefined }

Quantities == { Undefined, Null, Num(0), Num(3), Str("abc"), Num(-1) }

\* the lines of one-line carts, and the lines of longer carts
Lines == { CartLine(r, q, c) : r \in ProductRefs, q \in Quantities, c \in {Num(9)} }
MultiLines ==
    { CartLine(Oid(k), q, Num(9)) : k \in 1..MaxProducts, q \in {Undefined, Num(3)} }
    \cup { CartLine(Str("not-an-id"), Undefined, Undefined) }

Carts ==
    { NoCart, Arr(<<>>) }
    \cup { Arr(<<l>>) : l \in Lines }
    \cup UNION { { Arr(a) : a \in [1..n -> MultiLines] } : n \in 2..MaxCartLen }

\* bodies of POST /api/orders; totalValue and status are keys the client adds
OrderBody(cart, deliveryCharge) ==
    [ products |-> cart, deliveryCharge |-> deliveryCharge,
      totalValue |-> Num(99), status |-> Str("delivered") ]

OrderBodies ==
    { OrderBody(c, Undefined) : c \in Carts }
    \cup { OrderBody(Arr(<<CartLine(Oid(1), Undefined, Undefined)>>), Str("abc")) }

\* the few carts sent while orders are also replaced, moved and deleted
FewOrderBodies ==
    { OrderBody(c, Undefined) :
        c \in { NoCart,
                Arr(<<CartLine(Oid(1), Num(3), Num(9))>>),
                Arr(<<CartLine(Oid(1), Undefined, Undefined),
                      CartLine(Oid(2), Undefined, Undefined)>>) } }

OrderIdParams == { Oid(k) : k \in 1..MaxOrders } \cup { Str("not-an-id") }

StatusInputs == { Str(x) : x \in StatusEnum \cup {"shipped"} } \cup { Undefined }

\* a line-item as a client writes it into a PUT body
ClientItem(quantity) ==
    [ productId |-> Oid(1), title |-> "t9", code |-> "c9",
      price |-> Num(9), quantity |-> quantity ]

PutBody(items, totalValue, status) ==
    [products |-> items, totalValue |-> totalValue, status |-> status]

\* bodies of PUT /api/orders/:id (Undefined, NoCart: the key is not in the body)
PutBodies ==
    { PutBody(NoCart, Undefined, Undefined),
      PutBody(NoCart, Num(7), Undefined),
      PutBody(NoCart, Num(-1), Undefined),
      PutBody(NoCart, Undefined, Str("delivered")),
      PutBody(NoCart, Undefined, Str("shipped")),
      PutBody(Arr(<<ClientItem(Num(1))>>), Undefined, Undefined),
      PutBody(Arr(<<ClientItem(Num(0))>>), Undefined, Undefined) }

(***************************************************************************)
(* The pricing of one cart line.                                           *)
(***************************************************************************)
\* a mutant: the discount is never applied
unitPriceNoDiscount(prod) == prod.price

unitPrice(prod) ==
    IF prod.priceAfterDiscount.t = "number" /\ prod.priceAfterDiscount.n >= 0
    THEN prod.priceAfterDiscount.n
    ELSE prod.price

\* a mutant: the quantity is parsed but zero and NaN are kept
qtyNoDefault(p) ==
    LET v == ToNumber(Coalesce(p.quantity, Num(1)))
    IN IF v.t = "number" THEN v.n ELSE 0

qty(p) == OrElse(ToNumber(Coalesce(p.quantity, Num(1))), Num(1)).n

\* the object pushed onto detailed
LineItem(id, prod, p) ==
    [ productId |-> id, title |-> prod.title, code |-> prod.code,
      price |-> unitPrice(prod), quantity |-> qty(p) ]

\* a mutant: the new line-item goes to the front (unshift)
pushFront(detailed, item) == <<item>> \o detailed

\* detailed.push({...})
push(detailed, item) == Append(detailed, item)

\* a mutant: the client's totalValue is taken when the body has one
NewOrderTrusting(detailed, productTotal, body) ==
    [ products |-> detailed,
      totalValue |-> Coalesce(body.totalValue, Num(productTotal)).n,
      deliveryCharge |-> ToNumber(OrElse(body.deliveryCharge, Num(0))).n,
      status |-> "pending" ]

\* a mutant: the lines are priced again from the catalog as it is at the save
NewOrderRepriced(detailed, productTotal, body) ==
    [ products |->
          [ i \in 1..Len(detailed) |->
              IF detailed[i].productId \in DOMAIN products
              THEN [detailed[i] EXCEPT
                      !.price = unitPrice(products[detailed[i].productId])]
              ELSE detailed[i] ],
      totalValue |-> productTotal,
      deliveryCharge |-> ToNumber(OrElse(body.deliveryCharge, Num(0))).n,
      status |-> "pending" ]

\* new Order({...}): the document handed to save()
NewOrder(detailed, productTotal, body) ==
    [ products |-> detailed,
      totalValue |-> productTotal,
      deliveryCharge |-> ToNumber(OrElse(body.deliveryCharge, Num(0))).n,
      status |-> "pending" ]

\* OrderSchema's validation of a new document
NewOrderValid(detailed, productTotal, body) ==
    /\ \A i \in 1..Len(detailed) : detailed[i].quantity >= 1
    /\ productTotal >= 0
    /\ ToNumber(OrElse(body.deliveryCharge, Num(0))).t = "number"
    /\ ToNumber(OrElse(body.deliveryCharge, Num(0))).n >= 0

\* reads: the Product.findById calls the request has made
IdleOrderRequest ==
    [ pc |-> "idle", body |-> OrderBody(NoCart, Undefined), detailed |-> <<>>,
      productTotal |-> 0, reads |-> 0 ]

(***************************************************************************)
(* POST /api/orders                                                        *)
(***************************************************************************)
\* a mutant: an empty array passes the check
CartRejectedUnlessArray(body) == body.products.t # "array"

\* the checks before the loop: body("products").isArray({ min: 1 }) and
\* body("deliveryCharge").optional().isNumeric() in src/index.js, the if in
\* src/unnamed/part_000
CartRejected(body) ==
    IF server = "index.js"
    THEN \/ ~(body.products.t = "array" /\ Len(body.products.a) >= 1)
         \/ body.deliveryCharge.t # "undefined" /\ ~isNumeric(body.deliveryCharge)
    ELSE body.products.t # "array" \/ Len(body.products.a) = 0

\* a mutant: what was resolved before the bad line is stored
RejectOrderKeepingLines(code, message) ==
    /\ req' = IdleOrderRequest
    /\ res' = Response("POST /api/orders", code, message)
    /\ IF req.detailed = <<>>
       THEN UNCHANGED <<orders, nextOid>>
       ELSE /\ orders' = (nextOid :> [ products |-> req.detailed,
                                        totalValue |-> req.productTotal,
                                        deliveryCharge |-> 0,
                                        status |-> "pending" ]) @@ orders
            /\ nextOid' = nextOid + 1

\* return res.status(code).json({ message }): the request ends, nothing is saved
RejectOrder(code, message) ==
    /\ req' = IdleOrderRequest
    /\ res' = Response("POST /api/orders", code, message)
    /\ UNCHANGED <<orders, nextOid>>

\* a mutant: the loop is left after its first line
AfterLineFirstOnly(n, len) == "save"

\* for (const p of products): after the n-th line of len, the next or the save
AfterLine(n, len) == IF n >= len THEN "save" ELSE "loop"

PostOrdersBegin(body) ==
    /\ req.pc = "idle"
    /\ nextOid <= MaxOrders
    /\ IF CartRejected(body)
       THEN RejectOrder(400, IF server = "index.js" THEN "Validation failed"
                             ELSE "Products are required")
       ELSE /\ req' = [IdleOrderRequest EXCEPT
                         !.pc = AfterLine(0, Len(body.products.a)),
                         !.body = body]
            /\ UNCHANGED <<res, orders, nextOid>>
    /\ UNCHANGED <<server, products, nextPid, preq>>

\* one iteration of for (const p of products), up to its await and back
PostOrdersLine ==
    /\ req.pc = "loop"
    /\ LET cart == req.body.products.a
           n == Len(req.detailed) + 1
           p == cart[n]
           pid == p.productId
       IN IF ~Truthy(pid) \/ ~isValidObjectId(pid)
          THEN RejectOrder(400, "Invalid productId")
          ELSE IF pid.n \notin DOMAIN products
          THEN RejectOrder(400, "Product not found")
          ELSE LET prod == products[pid.n]
               IN /\ req' = [req EXCEPT
                        !.reads = req.reads + 1,
                        !.productTotal = req.productTotal + unitPrice(prod) * qty(p),
                        !.detailed = push(req.detailed, LineItem(pid.n, prod, p)),
                        !.pc = AfterLine(n, Len(cart))]
                  /\ UNCHANGED <<res, orders, nextOid>>
    /\ UNCHANGED <<server, products, nextPid, preq>>

\* new Order({...}) and await order.save()
PostOrdersSave ==
    /\ req.pc = "save"
    /\ IF NewOrderValid(req.detailed, req.productTotal, req.body)
       THEN /\ orders' = (nextOid :> NewOrder(req.detailed, req.productTotal, req.body))
                            @@ orders
            /\ nextOid' = nextOid + 1
            /\ req' = IdleOrderRequest
            /\ res' = Response("POST /api/orders", 201, "")
       ELSE RejectOrder(500, "err.message")
    /\ UNCHANGED <<server, products, nextPid, preq>>

(***************************************************************************)
(* PUT /api/orders/:id: Object.assign(order, req.body), then save().       *)
(***************************************************************************)
\* OrderProductSchema's cast of a client's line-item
CastItem(c) ==
    [ productId |-> c.productId.n, title |-> c.title, code |-> c.code,
      price |-> ToNumber(c.price).n,
      quantity |-> ToNumber(Coalesce(c.quantity, Num(1))).n ]

ItemValid(c) ==
    /\ isValidObjectId(c.productId)
    /\ CastsToNumber(c.price)
    /\ CastsToNumber(Coalesce(c.quantity, Num(1)))
    /\ ToNumber(Coalesce(c.quantity, Num(1))).n >= 1

\* the document after Object.assign, as save() would store it
AssignOrder(order, body) ==
    [ order EXCEPT
        !.products = IF body.products.t = "undefined" THEN @
                     ELSE [i \in 1..Len(body.products.a) |-> CastItem(body.products.a[i])],
        !.totalValue = IF body.totalValue.t = "undefined" THEN @
                       ELSE ToNumber(body.totalValue).n,
        !.status = IF body.status.t = "undefined" THEN @ ELSE body.status.s ]

\* a mutant: the status path has no enum
AssignValidNoEnum(body) ==
    /\ \/ body.products.t = "undefined"
       \/ \A i \in 1..Len(body.products.a) : ItemValid(body.products.a[i])
    /\ \/ body.totalValue.t = "undefined"
       \/ CastsToNumber(body.totalValue) /\ ToNumber(body.totalValue).n >= 0

\* OrderSchema's validation of the assigned paths
AssignValid(body) ==
    /\ \/ body.products.t = "undefined"
       \/ \A i \in 1..Len(body.products.a) : ItemValid(body.products.a[i])
    /\ \/ body.totalValue.t = "undefined"
       \/ CastsToNumber(body.totalValue) /\ ToNumber(body.totalValue).n >= 0
    /\ \/ body.status.t = "undefined"
       \/ body.status.t = "string" /\ body.status.s \in StatusEnum

PutOrder(id, body) ==
    LET op == "PUT /api/orders/:id" IN
    /\ IF ~isValidObjectId(id)
       THEN /\ res' = Response(op, 400, "Invalid order id")
            /\ UNCHANGED orders
       ELSE IF id.n \notin DOMAIN orders
       THEN /\ res' = Response(op, 404, "Order not found")
            /\ UNCHANGED orders
       ELSE IF AssignValid(body)
       THEN /\ orders' = [orders EXCEPT ![id.n] = AssignOrder(orders[id.n], body)]
            /\ res' = Response(op, 200, "")
       ELSE /\ res' = Thrown(op)
            /\ UNCHANGED orders
    /\ UNCHANGED <<server, products, nextPid, nextOid, preq, req>>

(***************************************************************************)
(* PATCH /api/orders/:id/status                                            *)
(***************************************************************************)
\* a mutant: delivered and cancelled are final
StatusAllowedFinal(order, status) ==
    /\ status.t = "string" /\ status.s \in StatusEnum
    /\ order.status \notin {"delivered", "cancelled"}

\* the enum validator of OrderSchema.status at save()
StatusAllowed(order, status) == status.t = "string" /\ status.s \in StatusEnum

\* body("status").isIn([...]) of src/index.js; src/unnamed/part_000 has none
StatusRejected(status) ==
    /\ server = "index.js"
    /\ ~(status.t = "string" /\ status.s \in StatusEnum)

PatchOrderStatus(id, status) ==
    LET op == "PATCH /api/orders/:id/status" IN
    /\ IF StatusRejected(status)
       THEN /\ res' = ValidationFailed(op)
            /\ UNCHANGED orders
       ELSE IF ~isValidObjectId(id)
       THEN /\ res' = Response(op, 400, "Invalid order id")
            /\ UNCHANGED orders
       ELSE IF id.n \notin DOMAIN orders
       THEN /\ res' = Response(op, 404, "Order not found")
            /\ UNCHANGED orders
       ELSE LET order == orders[id.n]
                new == Coalesce(status, Str(order.status))
            IN IF StatusAllowed(order, new)
               THEN /\ orders' = [orders EXCEPT ![id.n].status = new.s]
                    /\ res' = Response(op, 200, "")
               ELSE /\ res' = Thrown(op)
                    /\ UNCHANGED orders
    /\ UNCHANGED <<server, products, nextPid, nextOid, preq, req>>

(***************************************************************************)
(* DELETE /api/orders/:id                                                  *)
(***************************************************************************)
DeleteOrder(id) ==
    LET op == "DELETE /api/orders/:id" IN
    /\ IF ~isValidObjectId(id)
       THEN /\ res' = Response(op, 400, "Invalid order id")
            /\ UNCHANGED orders
       ELSE IF id.n \notin DOMAIN orders
       THEN /\ res' = Response(op, 404, "Order not found")
            /\ UNCHANGED orders
       ELSE /\ orders' = [k \in DOMAIN orders \ {id.n} |-> orders[k]]
            /\ res' = Response(op, 200, "Order removed")
    /\ UNCHANGED <<server, products, nextPid, nextOid, preq, req>>

(***************************************************************************)
(* The system: one of the two server files over an empty database.         *)
(***************************************************************************)
Init ==
    /\ server \in {"index.js", "part_000"}
    /\ products = <<>>
    /\ nextPid = 1
    /\ orders = <<>>
    /\ nextOid = 1
    /\ preq = [c \in Clients |-> IdleProductRequest]
    /\ req = IdleOrderRequest
    /\ res = Response("", 0, "")

\* every handler, with the few carts and the one product update
Next ==
    \/ \E body \in CreateBodies : PostProductsFind(1, body)
    \/ PostProductsSave(1)
    \/ \E id \in ProductIdParams, body \in FewUpdateBodies : PutProduct(id, body)
    \/ \E id \in ProductIdParams : DeleteProduct(id)
    \/ \E body \in FewOrderBodies : PostOrdersBegin(body)
    \/ PostOrdersLine
    \/ PostOrdersSave
    \/ \E id \in OrderIdParams, body \in PutBodies : PutOrder(id, body)
    \/ \E id \in OrderIdParams, status \in StatusInputs : PatchOrderStatus(id, status)
    \/ \E id \in OrderIdParams : DeleteOrder(id)

Spec == Init /\ [][Next]_vars

\* order creation over a changing catalog, with every cart
NextPricing ==
    \/ \E body \in CreateBodies : PostProductsFind(1, body)
    \/ PostProductsSave(1)
    \/ \E id \in ProductIdParams, body \in UpdateBodies : PutProduct(id, body)
    \/ \E id \in ProductIdParams : DeleteProduct(id)
    \/ \E body \in OrderBodies : PostOrdersBegin(body)
    \/ PostOrdersLine
    \/ PostOrdersSave

SpecPricing == Init /\ [][NextPricing]_vars

\* the catalog under concurrent clients: creations interleave with each other
\* and with updates and deletes
NextCatalog ==
    \/ \E c \in Clients, body \in CreateBodies : PostProductsFind(c, body)
    \/ \E c \in Clients : PostProductsSave(c)
    \/ \E id \in ProductIdParams, body \in UpdateBodies : PutProduct(id, body)
    \/ \E id \in ProductIdParams : DeleteProduct(id)

SpecCatalog == Init /\ [][NextCatalog]_vars

(***************************************************************************)
(* Properties.                                                             *)
(***************************************************************************)
RECURSIVE SumLines(_)
\* the sum of price x quantity over a sequence of line-items
SumLines(items) ==
    IF items = <<>> THEN 0
    ELSE items[1].price * items[1].quantity + SumLines(Tail(items))

\* the step is an iteration of the loop that resolved its line
LineResolved == PostOrdersLine /\ Len(req'.detailed) = Len(req.detailed) + 1

\* the cart line the next iteration of the loop takes
CurrentLine == req.body.products.a[Len(req.detailed) + 1]

\* the step is the save of a new order, and it succeeded
OrderCreated == PostOrdersSave /\ res'.code = 201

\* C1: every order persisted by POST /api/orders has its totalValue equal to
\* the sum over its lines of unit price x quantity, its lines being exactly the
\* ones the loop resolved from the catalog (the running total is that sum after
\* every iteration); neither the totalValue (99) nor a line price (9) sent in
\* the body is stored.
C1_TotalIsSumOfResolvedLines ==
    [][/\ req'.productTotal = SumLines(req'.detailed)
       /\ OrderCreated =>
            LET o == orders'[nextOid] IN
            /\ o.products = req.detailed
            /\ Len(o.products) = Len(req.body.products.a)
            /\ o.totalValue = SumLines(o.products)
            /\ o.totalValue # req.body.totalValue.n
            /\ \A i \in 1..Len(o.products) :
                 req.body.products.a[i].price.t = "number" =>
                    o.products[i].price # req.body.products.a[i].price.n]_vars

\* an order of two lines with different unit prices was persisted
C1_Witness ==
    /\ res = Response("POST /api/orders", 201, "")
    /\ \E k \in DOMAIN orders :
         /\ Len(orders[k].products) = 2
         /\ orders[k].products[1].price # orders[k].products[2].price
         /\ orders[k].products[1].quantity = 3
         /\ orders[k].totalValue > 0

\* C2: the unit price of the line-item built from a cart line is the product's
\* priceAfterDiscount when the product has one that is >= 0, and the product's
\* price in every other case.
C2_UnitPriceRule ==
    [][LineResolved =>
         LET prod == products[CurrentLine.productId.n]
             item == req'.detailed[Len(req'.detailed)]
             discounted == /\ prod.priceAfterDiscount.t = "number"
                           /\ prod.priceAfterDiscount.n >= 0
         IN /\ discounted => item.price = prod.priceAfterDiscount.n
            /\ ~discounted => item.price = prod.price]_vars

\* a line was resolved at a discount of 0 from a product whose price is not 0
C2_Witness ==
    /\ req.pc = "save"
    /\ \E k \in DOMAIN products :
         /\ products[k].priceAfterDiscount = Num(0)
         /\ products[k].price > 0
         /\ req.detailed[1].productId = k
         /\ req.detailed[1].price = 0
         /\ req.detailed[1].title = products[k].title

\* the cart line the loop is at has no usable productId, or names no product
LineInvalid ==
    \/ CurrentLine.productId.t # "oid"
    \/ CurrentLine.productId.n \notin DOMAIN products

\* C3: when the loop comes to a line whose productId is missing, is not an
\* ObjectId, or names no stored product, the request ends with a 400 and the
\* Order collection is what it was; no iteration of the loop writes to it.
C3_InvalidLineAborts ==
    [][PostOrdersLine =>
         /\ orders' = orders
         /\ nextOid' = nextOid
         /\ LineInvalid =>
              /\ res'.op = "POST /api/orders" /\ res'.code = 400
              /\ req' = IdleOrderRequest]_vars

\* a request was refused for a product that does not exist, with a product in
\* the catalog and no order stored
C3_Witness ==
    /\ res = Response("POST /api/orders", 400, "Product not found")
    /\ req.pc = "idle"
    /\ DOMAIN products # {}
    /\ orders = <<>>

\* C4: the quantity of the line-item is 1 for a requested quantity of 0, "abc",
\* null or none, and 3 for a requested quantity of 3; the saved order holds the
\* line-items as resolved.
C4_QuantityNormalized ==
    [][/\ LineResolved =>
            LET q == CurrentLine.quantity
                item == req'.detailed[Len(req'.detailed)]
            IN /\ q \in {Num(0), Str("abc"), Null, Undefined} => item.quantity = 1
               /\ q = Num(3) => item.quantity = 3
       /\ OrderCreated =>
            \A i \in 1..Len(req.detailed) :
               orders'[nextOid].products[i].quantity = req.detailed[i].quantity]_vars

\* the line of a cart that asked for "abc" was resolved with quantity 1
C4_Witness ==
    /\ req.pc = "save"
    /\ req.body.products.a[1].quantity = Str("abc")
    /\ req.detailed[1].quantity = 1

\* C5: a request whose products is an empty array or absent is answered 400
\* at once: the loop is not entered, so no Product.findById is made, and the
\* Order collection is what it was.
C5_EmptyCartRejected ==
    [][\A body \in OrderBodies :
         (PostOrdersBegin(body) /\ body.products \in {NoCart, Arr(<<>>)}) =>
            /\ res'.op = "POST /api/orders" /\ res'.code = 400
            /\ req' = IdleOrderRequest /\ req'.reads = 0
            /\ orders' = orders
            /\ nextOid' = nextOid]_vars

\* an empty cart was refused while the catalog held a product
C5_Witness ==
    /\ res.op = "POST /api/orders" /\ res.code = 400
    /\ res.message \in {"Validation failed", "Products are required"}
    /\ req = IdleOrderRequest
    /\ DOMAIN products # {}
    /\ orders = <<>>

\* the PATCH body carries a status, and it is none of the four of the enum
OutsideEnum(status) == status.t = "string" /\ status.s \notin StatusEnum

\* C6: a status-transition request for a stored order, with a status that is
\* none of pending, processing, delivered, cancelled, is answered 400 and
\* leaves the Order collection as it was.
C6_InvalidStatusRejected ==
    [][\A k \in DOMAIN orders, status \in StatusInputs :
         (PatchOrderStatus(Oid(k), status) /\ OutsideEnum(status)) =>
            /\ res'.code = 400
            /\ orders' = orders]_vars

\* C7: for a stored order in any status and any status t of the enum, the
\* status-transition request with t is answered 200 and the stored order is
\* the same order with status t.
C7_AnyTransitionAllowed ==
    [][\A k \in DOMAIN orders, t \in StatusEnum :
         PatchOrderStatus(Oid(k), Str(t)) =>
            /\ res' = Response("PATCH /api/orders/:id/status", 200, "")
            /\ orders' = [orders EXCEPT ![k].status = t]]_vars

\* a status transition was accepted and left the order pending: from pending
\* itself, or back from a later status
C7_Witness ==
    /\ res = Response("PATCH /api/orders/:id/status", 200, "")
    /\ \E k \in DOMAIN orders :
         /\ orders[k].status = "pending"
         /\ orders[k].totalValue = SumLines(orders[k].products)

\* C8: every stored order's totalValue is the sum over its line-items of
\* price x quantity.
C8_TotalValueIsSum ==
    \A k \in DOMAIN orders : orders[k].totalValue = SumLines(orders[k].products)

\* C9: no step changes the line-items of an order that stays stored.
C9_LineItemsImmutable ==
    [][\A k \in DOMAIN orders \cap DOMAIN orders' :
         orders'[k].products = orders[k].products]_vars

\* the product references of the cart of the request in flight
DistinctRefs ==
    { req.body.products.a[i].productId : i \in 1..Len(req.body.products.a) }

\* the step stores exactly one new order and touches no other
OneWrite ==
    /\ nextOid \notin DOMAIN orders
    /\ DOMAIN orders' = DOMAIN orders \cup {nextOid}
    /\ \A k \in DOMAIN orders : orders'[k] = orders[k]

\* C10 as claimed: a successful request has read the catalog once per
\* distinct product of its cart, and writes one order.
C10_OneReadPerDistinctProduct ==
    [][OrderCreated => (req.reads = Cardinality(DistinctRefs) /\ OneWrite)]_vars

\* C10 as amended: a successful request has read the catalog once per cart
\* line, a product named in k lines being read k times; it writes one order,
\* in the step after the last line was resolved, and no earlier step of the
\* request writes.
C10_OneReadPerLineOneWrite ==
    [][/\ \A body \in OrderBodies :
            PostOrdersBegin(body) => (orders' = orders /\ req'.reads = 0)
       /\ PostOrdersLine => orders' = orders
       /\ LineResolved => req'.reads = req.reads + 1
       /\ OrderCreated =>
            /\ req.reads = Len(req.body.products.a)
            /\ Len(req.detailed) = Len(req.body.products.a)
            /\ OneWrite]_vars

\* an order of two lines that name the same product was persisted
C10_Witness ==
    /\ res = Response("POST /api/orders", 201, "")
    /\ \E k \in DOMAIN orders :
         /\ Len(orders[k].products) = 2
         /\ orders[k].products[1].productId = orders[k].products[2].productId

\* C11: the line-items of a created order are as many as the cart's lines and
\* the i-th is the one built from the i-th cart line: it names that line's
\* product and has that line's quantity (3 for 3, 1 for none); each iteration
\* of the loop puts its line-item after the ones already resolved.
C11_LineOrderPreserved ==
    [][/\ LineResolved =>
            /\ SubSeq(req'.detailed, 1, Len(req.detailed)) = req.detailed
            /\ req'.detailed[Len(req'.detailed)].productId = CurrentLine.productId.n
       /\ OrderCreated =>
            LET o == orders'[nextOid]
                cart == req.body.products.a
            IN /\ Len(o.products) = Len(cart)
               /\ \A i \in 1..Len(cart) :
                    /\ o.products[i].productId = cart[i].productId.n
                    /\ cart[i].quantity = Num(3) => o.products[i].quantity = 3
                    /\ cart[i].quantity = Undefined => o.products[i].quantity = 1]_vars

\* an order was persisted whose first line is the second product with
\* quantity 1 and whose second line is the first product with quantity 3
C11_Witness ==
    /\ res = Response("POST /api/orders", 201, "")
    /\ \E k \in DOMAIN orders :
         /\ Len(orders[k].products) = 2
         /\ orders[k].products[1].productId = 2
         /\ orders[k].products[1].quantity = 1
         /\ orders[k].products[2].productId = 1
         /\ orders[k].products[2].quantity = 3

\* C12: after every step, whichever of the order requests it is, the status of
\* every stored order is one of pending, processing, delivered, cancelled; and
\* the order a creation stores is pending, though the body of every creation
\* request carries the status "delivered".
C12_StatusInEnum ==
    [][/\ \A k \in DOMAIN orders' : orders'[k].status \in StatusEnum
       /\ OrderCreated =>
            /\ req.body.status = Str("delivered")
            /\ orders'[nextOid].status = "pending"]_vars

\* a PUT was accepted and the order it answered with is delivered
C12_Witness ==
    /\ res = Response("PUT /api/orders/:id", 200, "")
    /\ \E k \in DOMAIN orders : orders[k].status = "delivered"

\* C13: every stored product that has a priceAfterDiscount has it between 0
\* and its price, after every product create and update.
C13_DiscountWithinPrice ==
    \A k \in DOMAIN products :
       products[k].priceAfterDiscount.t = "number" =>
          /\ 0 <= products[k].priceAfterDiscount.n
          /\ products[k].priceAfterDiscount.n <= products[k].price

\* C14: no two stored products have the same code, however the lookups and
\* saves of concurrent creations interleave with each other and with updates.
C14_CodeUnique ==
    \A j, k \in DOMAIN products : products[j].code = products[k].code => j = k

\* two creations of the code c1 raced: the only product ever stored was
\* created with c1, and another creation that had found no c1 was refused at
\* its save
C14_Witness ==
    /\ res = Thrown("POST /api/products")
    /\ Saving = {}
    /\ nextPid = 2
    /\ DOMAIN products = {1}
    /\ products[1].code = "c1"
    /\ products[1].priceAfterDiscount = Undefined

\* C15: while product updates and deletes interleave with an order creation
\* in flight, the title, code and price of each line-item are those of the
\* product document as it was at the one read made for that line; a later
\* change of the catalog leaves the lines already resolved and the running
\* total as they were; and the order saved holds exactly those lines, its
\* totalValue being the sum of their prices x quantities.
C15_LineIsOneSnapshot ==
    [][/\ LineResolved =>
            LET v == products[CurrentLine.productId.n]
                item == req'.detailed[Len(req'.detailed)]
            IN /\ item.title = v.title
               /\ item.code = v.code
               /\ item.price \in {v.price, v.priceAfterDiscount.n}
               /\ item.price = v.price <=>
                    \/ v.priceAfterDiscount.t # "number"
                    \/ v.priceAfterDiscount.n = v.price
       /\ products' # products => req' = req
       /\ OrderCreated =>
            /\ orders'[nextOid].products = req.detailed
            /\ orders'[nextOid].totalValue = SumLines(req.detailed)]_vars

\* an order was persisted whose two lines name the same product, the first
\* with the title and price it had before an update and the second with the
\* title and price it had after
C15_Witness ==
    /\ res = Response("POST /api/orders", 201, "")
    /\ \E k \in DOMAIN orders :
         LET l == orders[k].products IN
         /\ Len(l) = 2
         /\ l[1].productId = l[2].productId
         /\ l[1].title = "t1" /\ l[1].price = 2
         /\ l[2].title = "t2" /\ l[2].price = 0
         /\ orders[k].totalValue = 2 * l[1].quantity

====
